---- MODULE Spec2Model ----
(***************************************************************************)
(* Model of src/tourism.py: the Streamlit travel planner.                  *)
(*                                                                         *)
(*   - save_to_csv / save_review : the two append-only CSV logs            *)
(*   - get_hourly_weather        : date parsing, one HTTP GET, mapping     *)
(*   - generate_itinerary        : one model call, fallback text           *)
(*   - show_input_page / show_itinerary_page / main : the page controller  *)
(*                                                                         *)
(* Strings that the code parses or rewrites (dates, the map query) are     *)
(* sequences of one-character strings; an optional JSON key or an optional *)
(* value is a sequence of length 0 (absent) or 1 (present).                *)
(***************************************************************************)
EXTENDS Integers, Sequences, FiniteSets, TLC

VARIABLES page, trip, submitted, run, save, files, calls, wIn, wOut

vars == <<page, trip, submitted, run, save, files, calls, wIn, wOut>>

appVars == <<page, trip, submitted, run, save, files, calls>>

(***************************************************************************)
(* Bounds of the model.                                                    *)
(***************************************************************************)
\* most interval objects in one timeline of a modelled weather response
MaxIntervals == 2
\* most review rows the sessions submit in one behaviour
MaxReviews == 2

(***************************************************************************)
(* datetime.strptime(str(x), "%Y-%m-%d") and date.__str__                   *)
(***************************************************************************)
DigitChars == <<"0", "1", "2", "3", "4", "5", "6", "7", "8", "9">>

IsDigit(c) == \E i \in 1..10 : DigitChars[i] = c

DigitVal(c) == (CHOOSE i \in 1..10 : DigitChars[i] = c) - 1

\* the character at position p, or "" past the end of the string
At(s, p) == IF p >= 1 /\ p <= Len(s) THEN s[p] ELSE ""

IsNonZeroDigit(c) == IsDigit(c) /\ c # "0"

\* %Y is the regex \d\d\d\d
YearMatches(s) ==
    /\ IsDigit(At(s, 1)) /\ IsDigit(At(s, 2))
    /\ IsDigit(At(s, 3)) /\ IsDigit(At(s, 4))

\* %m is the regex 1[0-2]|0[1-9]|[1-9]; the lengths of the alternatives that
\* match at p, in the order the regex engine tries them
MonthAlts(s, p) ==
    (IF At(s, p) = "1" /\ At(s, p + 1) \in {"0", "1", "2"} THEN <<2>> ELSE <<>>)
    \o (IF At(s, p) = "0" /\ IsNonZeroDigit(At(s, p + 1)) THEN <<2>> ELSE <<>>)
    \o (IF IsNonZeroDigit(At(s, p)) THEN <<1>> ELSE <<>>)

\* %d is the regex 3[01]|[12]\d|0[1-9]|[1-9]| [1-9]
DayAlts(s, p) ==
    (IF At(s, p) = "3" /\ At(s, p + 1) \in {"0", "1"} THEN <<2>> ELSE <<>>)
    \o (IF At(s, p) \in {"1", "2"} /\ IsDigit(At(s, p + 1)) THEN <<2>> ELSE <<>>)
    \o (IF At(s, p) = "0" /\ IsNonZeroDigit(At(s, p + 1)) THEN <<2>> ELSE <<>>)
    \o (IF IsNonZeroDigit(At(s, p)) THEN <<1>> ELSE <<>>)
    \o (IF At(s, p) = " " /\ IsNonZeroDigit(At(s, p + 1)) THEN <<2>> ELSE <<>>)

\* the month alternatives after which "-" and a day follow (backtracking)
MonthFits(s, p) ==
    SelectSeq(MonthAlts(s, p),
              LAMBDA n : At(s, p + n) = "-" /\ DayAlts(s, p + n + 1) # <<>>)

\* the number written by the characters s[p .. p+n-1], a leading space ignored
NumAt(s, p, n) ==
    IF n = 1 THEN DigitVal(s[p])
    ELSE IF s[p] = " " THEN DigitVal(s[p + 1])
    ELSE 10 * DigitVal(s[p]) + DigitVal(s[p + 1])

IsLeap(y) == (y % 4 = 0 /\ y % 100 # 0) \/ y % 400 = 0

DaysInMonth(y, m) ==
    IF m = 2 THEN (IF IsLeap(y) THEN 29 ELSE 28)
    ELSE IF m \in {4, 6, 9, 11} THEN 30 ELSE 31

\* the datetime constructor raises ValueError outside these ranges
IsValidDate(y, m, d) ==
    /\ y >= 1 /\ y <= 9999
    /\ m >= 1 /\ m <= 12
    /\ d >= 1 /\ d <= DaysInMonth(y, m)

\* <<>> when strptime raises ValueError, else <<the date>>
Strptime(s) ==
    IF ~(YearMatches(s) /\ At(s, 5) = "-" /\ MonthFits(s, 6) # <<>>) THEN <<>>
    ELSE LET ml == Head(MonthFits(s, 6))
             dp == 6 + ml + 1
             dl == Head(DayAlts(s, dp))
             y  == 1000 * DigitVal(s[1]) + 100 * DigitVal(s[2])
                   + 10 * DigitVal(s[3]) + DigitVal(s[4])
             m  == NumAt(s, 6, ml)
             d  == NumAt(s, dp, dl)
         IN  IF dp + dl - 1 # Len(s) THEN <<>>      \* unconverted data remains
             ELSE IF ~IsValidDate(y, m, d) THEN <<>>
             ELSE <<[y |-> y, m |-> m, d |-> d]>>

Pad2(n) == <<DigitChars[(n \div 10) + 1], DigitChars[(n % 10) + 1]>>

Pad4(n) == <<DigitChars[(n \div 1000) + 1], DigitChars[((n \div 100) % 10) + 1]>>
           \o Pad2(n % 100)

\* str(datetime.date) and strftime("%Y-%m-%d"): zero-padded ISO form
DateStr(dt) == Pad4(dt.y) \o <<"-">> \o Pad2(dt.m) \o <<"-">> \o Pad2(dt.d)

(***************************************************************************)
(* get_hourly_weather                                                      *)
(***************************************************************************)
NoOutcome == [raised |-> "", error |-> "", http |-> 0, request |-> <<>>, result |-> <<>>]

FormatError == "Invalid date format. Please enter dates in YYYY-MM-DD format."

FetchError == "Failed to fetch weather data"

\* values.get(key, "N/A") on an optional field
GetOrNA(field) == IF field = <<>> THEN "N/A" ELSE field[1]

\* the dictionary appended for one interval; both subscripts are present here
Reading(interval) ==
    [time      |-> interval.startTime[1],
     temp      |-> GetOrNA(interval.values[1].temperature),
     humidity  |-> GetOrNA(interval.values[1].humidity),
     rain_prob |-> GetOrNA(interval.values[1].precipitationProbability)]

\* data.get("data", {}).get("timelines", [])
Timelines(body) ==
    IF body.data = <<>> THEN <<>>
    ELSE IF body.data[1].timelines = <<>> THEN <<>>
    ELSE body.data[1].timelines[1]

\* timeline.get("intervals", [])
Intervals(timeline) == IF timeline.intervals = <<>> THEN <<>> ELSE timeline.intervals[1]

\* HandleResponse with every 2xx status taken for success
HandleResponse_Any2xx(status, body) ==
    IF status >= 200 /\ status <= 299
    THEN IF Timelines(body) = <<>>
         THEN [NoOutcome EXCEPT !.raised = "IndexError"]
         ELSE LET ivs == Intervals(Timelines(body)[1])
              IN  IF \E i \in 1..Len(ivs) :
                        ivs[i].startTime = <<>> \/ ivs[i].values = <<>>
                  THEN [NoOutcome EXCEPT !.raised = "KeyError"]
                  ELSE [NoOutcome EXCEPT
                          !.result = [i \in 1..Len(ivs) |-> Reading(ivs[i])]]
    ELSE [NoOutcome EXCEPT !.error = FetchError]

\* the branch on response.status_code: the loop over the first timeline's
\* intervals, or the error report
HandleResponse(status, body) ==
    IF status = 200
    THEN IF Timelines(body) = <<>>
         THEN [NoOutcome EXCEPT !.raised = "IndexError"]     \* [...][0] on an empty list
         ELSE LET ivs == Intervals(Timelines(body)[1])
              IN  IF \E i \in 1..Len(ivs) :
                        ivs[i].startTime = <<>> \/ ivs[i].values = <<>>
                  THEN [NoOutcome EXCEPT !.raised = "KeyError"]  \* interval["startTime"], interval["values"]
                  ELSE [NoOutcome EXCEPT
                          !.result = [i \in 1..Len(ivs) |-> Reading(ivs[i])]]
    ELSE [NoOutcome EXCEPT !.error = FetchError]

\* the whole call: start and end are str(start_date), str(end_date); status and
\* body are what the weather service answers if it is asked
GetHourlyWeather(location, start, end, status, body) ==
    IF Strptime(start) = <<>> \/ Strptime(end) = <<>>
    THEN [NoOutcome EXCEPT !.error = FormatError]
    ELSE LET req == [location  |-> location,
                     startTime |-> DateStr(Strptime(start)[1]) \o <<"T00:00:00Z">>,
                     endTime   |-> DateStr(Strptime(end)[1]) \o <<"T23:59:59Z">>]
         IN  [HandleResponse(status, body) EXCEPT !.http = 1, !.request = <<req>>]

(***************************************************************************)
(* Inputs of the weather fetcher.                                          *)
(***************************************************************************)
DateStrings ==
    { <<"2", "0", "2", "5", "-", "0", "6", "-", "0", "1">>,
      <<"2", "0", "2", "5", "-", "0", "6", "-", "0", "2">>,
      <<"2", "0", "2", "4", "-", "0", "2", "-", "2", "9">>,
      <<"2", "0", "2", "5", "-", "6", "-", "1">>,
      <<"2", "0", "2", "5", "-", "0", "6", "-", " ", "2">>,
      <<"2", "0", "2", "5", "-", "1", "2", "-", "3">>,
      <<"1", "3", "/", "0", "2", "/", "2", "0", "2", "4">>,
      <<"2", "0", "2", "5", "/", "0", "6", "/", "0", "1">>,
      <<"2", "0", "2", "5", "-", "0", "2", "-", "3", "0">>,
      <<"2", "0", "2", "5", "-", "1", "3", "-", "0", "1">>,
      <<"0", "0", "0", "0", "-", "0", "1", "-", "0", "1">>,
      <<"2", "0", "2", "5", "-", "0", "6", "-", "0", "1", "1">>,
      <<>> }

Statuses == {200, 201, 404, 500, 503}

Full == [temperature |-> <<"21.5">>, humidity |-> <<"60">>,
         precipitationProbability |-> <<"10">>]

IntervalChoices ==
    { [startTime |-> <<"T00">>, values |-> <<Full>>],
      [startTime |-> <<"T01">>, values |-> <<[Full EXCEPT !.temperature = <<>>]>>],
      [startTime |-> <<"T02">>,
       values |-> <<[Full EXCEPT !.humidity = <<>>, !.precipitationProbability = <<>>]>>],
      [startTime |-> <<"T03">>,
       values |-> <<[temperature |-> <<>>, humidity |-> <<>>,
                     precipitationProbability |-> <<>>]>>],
      [startTime |-> <<"T04">>, values |-> <<>>],
      [startTime |-> <<>>, values |-> <<Full>>] }

IntervalLists == UNION { [1..n -> IntervalChoices] : n \in 0..MaxIntervals }

\* a second timeline, which the code never reads
OtherTimeline ==
    [intervals |-> <<<<[startTime |-> <<"D01">>, values |-> <<Full>>]>>>>]

FirstTimelines == {[intervals |-> <<>>]} \cup {[intervals |-> <<l>>] : l \in IntervalLists}

TimelineLists == {<<>>} \cup {<<t>> : t \in FirstTimelines}
                 \cup {<<t, OtherTimeline>> : t \in FirstTimelines}

Bodies == {[data |-> <<>>], [data |-> <<[timelines |-> <<>>]>>]}
          \cup {[data |-> <<[timelines |-> <<tl>>]>>] : tl \in TimelineLists}

(***************************************************************************)
(* The weather fetcher on its own: inputs drawn at the start, one call.    *)
(***************************************************************************)
CallWeather ==
    /\ wOut = <<>>
    /\ wOut' = <<GetHourlyWeather(wIn.location, wIn.start, wIn.end, wIn.status, wIn.body)>>
    /\ UNCHANGED wIn

(***************************************************************************)
(* save_to_csv, in the three steps other sessions can interleave with:     *)
(* os.path.exists (in the caller's step), the open for append, the write.   *)
(***************************************************************************)
Sessions == {"s1", "s2"}

SearchFile == "user_searches.csv"

ReviewFile == "reviews.csv"

FileNames == {SearchFile, ReviewFile}

NoFile == [exists |-> FALSE, rows |-> <<>>]

Idle == [pc |-> "idle", file |-> "", header |-> FALSE, data |-> <<>>]

HeaderRow(rec, s) == [kind |-> "header", cols |-> DOMAIN rec, by |-> s, vals |-> <<>>]

DataRow(rec, s) == [kind |-> "data", cols |-> DOMAIN rec, by |-> s, vals |-> <<rec>>]

\* HeaderFlag with the header written on every call
HeaderFlag_Always(f) == TRUE

\* header = not os.path.exists(filename), evaluated before to_csv opens the file
HeaderFlag(f) == ~files[f].exists

\* the call of save_to_csv(data, filename): DataFrame([data]) and the header flag
BeginSave(s, rec, f) ==
    /\ save' = [save EXCEPT ![s] = [pc |-> "open", file |-> f,
                                    header |-> HeaderFlag(f), data |-> <<rec>>]]
    /\ calls' = [calls EXCEPT ![f] = Append(@, rec)]

\* to_csv opens the file with mode "a", which creates it when it is missing
OpenFile(s) ==
    /\ save[s].pc = "open"
    /\ files' = [files EXCEPT ![save[s].file].exists = TRUE]
    /\ save' = [save EXCEPT ![s].pc = "write"]
    /\ UNCHANGED <<page, trip, submitted, run, calls, wIn, wOut>>

\* the rows to_csv writes: the header row if the flag says so, then the record
RowsWritten(s) ==
    (IF save[s].header THEN <<HeaderRow(save[s].data[1], s)>> ELSE <<>>)
    \o <<DataRow(save[s].data[1], s)>>

\* WriteFile with the file opened with mode "w": the write replaces the file
WriteFile_Overwrite(s) == [files EXCEPT ![save[s].file].rows = RowsWritten(s)]

\* the file after to_csv has written and closed it
WriteFile(s) == [files EXCEPT ![save[s].file].rows = @ \o RowsWritten(s)]

(***************************************************************************)
(* generate_itinerary                                                      *)
(***************************************************************************)
Fallback == "No response from AI."

\* resp is what model.generate_content returns: <<>> for no response object.
\* hourly_weather is a parameter the prompt never uses.
GenerateItinerary(location, start_date, end_date, budget, preferences, hourly_weather, additional_comments, resp) ==
    [prompt |-> [location |-> location, start_date |-> start_date,
                 end_date |-> end_date, budget |-> budget,
                 preferences |-> preferences,
                 additional_comments |-> additional_comments],
     text   |-> IF resp # <<>> THEN resp[1] ELSE Fallback]

(***************************************************************************)
(* get_google_places_url                                                   *)
(***************************************************************************)
BaseUrl == "https://www.google.com/maps/search/"

GetGooglePlacesUrl(query) ==
    IF query = <<>> THEN <<>>
    ELSE <<BaseUrl>> \o [i \in 1..Len(query) |-> IF query[i] = " " THEN "+" ELSE query[i]]

(***************************************************************************)
(* Inputs of the pages.                                                    *)
(***************************************************************************)
Locations == {"", "Paris"}

StartDates == {[y |-> 2025, m |-> 6, d |-> 1]}

EndDates == {[y |-> 2025, m |-> 6, d |-> 2]}

Currencies == {"USD"}

BudgetRanges == {"Low (0-500)"}

Selections == {<<>>, <<"Others">>}

CustomPreferences == {"", "Surfing"}

Comments == {""}

Ratings == {3, 5}

ReviewTexts == {"Great"}

Queries == {<<>>, <<"A", " ", "B">>}

\* what the weather service may answer to a page render: an error status, a
\* timeline of two intervals, no timeline at all
WeatherAnswers ==
    { [status |-> 503, body |-> [data |-> <<>>]],
      [status |-> 200, body |-> [data |-> <<[timelines |-> <<<<>>>>]>>]],
      [status |-> 200,
       body |-> [data |-> <<[timelines |-> <<<<[intervals |-> <<<<
            [startTime |-> <<"T00">>, values |-> <<Full>>],
            [startTime |-> <<"T01">>,
             values |-> <<[Full EXCEPT !.temperature = <<>>]>>] >>>>]>>>>]>>]] }

ModelResponses == {<<>>, <<"Day 1 | 8:00 am - 9:00 am | Breakfast">>}

(***************************************************************************)
(* show_input_page                                                         *)
(***************************************************************************)
Warning == "Please enter all required details."

Thanks == "Thank you for your feedback!"

NoRun == [phase |-> "none", weather |-> NoOutcome, itinerary |-> <<>>,
          weatherCalls |-> 0, genCalls |-> 0, link |-> <<>>, notice |-> ""]

\* the custom preference box exists only when "Others" is selected; a
\* non-empty custom preference is appended to the selection
Preferences(selection, custom) ==
    IF (\E i \in 1..Len(selection) : selection[i] = "Others") /\ custom # ""
    THEN Append(selection, custom)
    ELSE selection

\* FormAccepted with "or" for "and"
FormAccepted_Or(location, preferences) == location # "" \/ preferences # <<>>

\* if location and preferences
FormAccepted(location, preferences) == location # "" /\ preferences # <<>>

\* main() on a fresh session: "page" is not in session_state
Connect(s) ==
    /\ page[s] = "unset"
    /\ page' = [page EXCEPT ![s] = "input"]
    /\ run' = [run EXCEPT ![s] = [NoRun EXCEPT !.phase = "form"]]
    /\ UNCHANGED <<trip, submitted, save, files, calls, wIn, wOut>>

\* a click on "Generate Itinerary" with the form's current values
SubmitForm(s) ==
    /\ page[s] = "input"
    /\ run[s].phase = "form"
    /\ \E location \in Locations, start_date \in StartDates, end_date \in EndDates,
          budget_currency \in Currencies, budget_range \in BudgetRanges,
          selection \in Selections, custom \in CustomPreferences,
          additional_comments \in Comments :
         LET preferences == Preferences(selection, custom)
             search_data == [location |-> location, start_date |-> start_date,
                             end_date |-> end_date,
                             budget_currency |-> budget_currency,
                             budget_range |-> budget_range,
                             preferences |-> preferences,
                             additional_comments |-> additional_comments]
         IN  IF FormAccepted(location, preferences)
             THEN /\ submitted' = [submitted EXCEPT ![s] = <<search_data>>]
                  /\ BeginSave(s, search_data, SearchFile)
                  /\ run' = [run EXCEPT ![s].phase = "saving", ![s].notice = ""]
             ELSE /\ run' = [run EXCEPT ![s].notice = Warning]
                  /\ UNCHANGED <<submitted, save, calls>>
    /\ UNCHANGED <<page, trip, files, wIn, wOut>>

\* the rest of the accepted submission: to_csv writes, session_state.update,
\* page = "itinerary", st.rerun()
FinishSearchSave(s) ==
    /\ save[s].pc = "write"
    /\ save[s].file = SearchFile
    /\ files' = WriteFile(s)
    /\ trip' = [trip EXCEPT ![s] = save[s].data]
    /\ page' = [page EXCEPT ![s] = "itinerary"]
    /\ run' = [run EXCEPT ![s] = [NoRun EXCEPT !.phase = "rerun"]]
    /\ save' = [save EXCEPT ![s] = Idle]
    /\ UNCHANGED <<submitted, calls, wIn, wOut>>

(***************************************************************************)
(* show_itinerary_page                                                     *)
(***************************************************************************)
\* st.session_state.get(key, default) for the stored trip fields
StoredLocation(s) == IF trip[s] = <<>> THEN "" ELSE trip[s][1].location

StoredStart(s) == IF trip[s] = <<>> THEN <<>> ELSE DateStr(trip[s][1].start_date)

StoredEnd(s) == IF trip[s] = <<>> THEN <<>> ELSE DateStr(trip[s][1].end_date)

StoredBudget(s) ==
    IF trip[s] = <<>> THEN <<"", " ", "">>
    ELSE <<trip[s][1].budget_currency, " ", trip[s][1].budget_range>>

StoredPreferences(s) == IF trip[s] = <<>> THEN <<>> ELSE trip[s][1].preferences

StoredComments(s) == IF trip[s] = <<>> THEN "" ELSE trip[s][1].additional_comments

\* hourly_weather = get_hourly_weather(location, start_date, end_date), on the
\* stored trip and the service's answer
StoredWeather(s, answer) ==
    GetHourlyWeather(StoredLocation(s), StoredStart(s), StoredEnd(s),
                     answer.status, answer.body)

\* one run of the page script up to the display of the weather and the
\* itinerary: the weather call (its outcome is hourly_weather), the model call,
\* the two sections.  An exception of the weather call ends the script run
\* where it is raised.
RunItinerary(s, hourly_weather, resp) ==
    IF hourly_weather.raised # ""
    THEN [NoRun EXCEPT !.phase = "aborted", !.weather = hourly_weather,
                       !.weatherCalls = 1]
    ELSE [NoRun EXCEPT !.phase = "shown", !.weather = hourly_weather,
                       !.weatherCalls = 1, !.genCalls = 1,
                       !.itinerary = <<GenerateItinerary(
                            StoredLocation(s), StoredStart(s), StoredEnd(s),
                            StoredBudget(s), StoredPreferences(s),
                            hourly_weather.result, StoredComments(s), resp)>>]

\* a script run with no button pressed: the run st.rerun() starts, a manual
\* rerun, a widget edit
Rerender(s, env) ==
    /\ page[s] = "itinerary"
    /\ run[s].phase \in {"rerun", "shown", "aborted"}
    /\ \E answer \in env.answers, resp \in env.responses :
         \E hourly_weather \in {StoredWeather(s, answer)} :
            run' = [run EXCEPT ![s] = RunItinerary(s, hourly_weather, resp)]
    /\ UNCHANGED <<page, trip, submitted, save, files, calls, wIn, wOut>>

\* a click on "Search on Google Maps"
MapSearch(s, env) ==
    /\ page[s] = "itinerary"
    /\ run[s].phase = "shown"
    /\ \E answer \in env.answers, resp \in env.responses, user_query \in Queries :
         \E hourly_weather \in {StoredWeather(s, answer)} :
         \E r \in {RunItinerary(s, hourly_weather, resp)} :
            run' = [run EXCEPT ![s] =
                       IF r.phase = "shown" /\ user_query # <<>>
                       THEN [r EXCEPT !.link = GetGooglePlacesUrl(user_query)]
                       ELSE r]
    /\ UNCHANGED <<page, trip, submitted, save, files, calls, wIn, wOut>>

\* save_review's record
ReviewData(star_rating, review_text) == [rating |-> star_rating, review |-> review_text]

\* a click on "Submit Review"
SubmitReview(s, env) ==
    /\ page[s] = "itinerary"
    /\ run[s].phase = "shown"
    /\ Len(calls[ReviewFile]) < MaxReviews
    /\ \E answer \in env.answers, resp \in env.responses,
          star_rating \in Ratings, review_text \in ReviewTexts :
         \E hourly_weather \in {StoredWeather(s, answer)} :
         \E r \in {RunItinerary(s, hourly_weather, resp)} :
            IF r.phase = "shown"
            THEN /\ run' = [run EXCEPT ![s] = [r EXCEPT !.phase = "saving"]]
                 /\ BeginSave(s, ReviewData(star_rating, review_text), ReviewFile)
            ELSE /\ run' = [run EXCEPT ![s] = r]
                 /\ UNCHANGED <<save, calls>>
    /\ UNCHANGED <<page, trip, submitted, files, wIn, wOut>>

\* FinishReviewSave sending the session back to the form after the review
FinishReviewSave_BackToInput(s) ==
    /\ save[s].pc = "write"
    /\ save[s].file = ReviewFile
    /\ files' = WriteFile(s)
    /\ page' = [page EXCEPT ![s] = "input"]
    /\ run' = [run EXCEPT ![s] = [NoRun EXCEPT !.phase = "form", !.notice = Thanks]]
    /\ save' = [save EXCEPT ![s] = Idle]
    /\ UNCHANGED <<trip, submitted, calls, wIn, wOut>>

\* the rest of save_review: to_csv writes, then st.success
FinishReviewSave(s) ==
    /\ save[s].pc = "write"
    /\ save[s].file = ReviewFile
    /\ files' = WriteFile(s)
    /\ run' = [run EXCEPT ![s].phase = "shown", ![s].notice = Thanks]
    /\ save' = [save EXCEPT ![s] = Idle]
    /\ UNCHANGED <<page, trip, submitted, calls, wIn, wOut>>

(***************************************************************************)
(* Specifications.                                                         *)
(***************************************************************************)
InitApp ==
    /\ page = [s \in Sessions |-> "unset"]
    /\ trip = [s \in Sessions |-> <<>>]
    /\ submitted = [s \in Sessions |-> <<>>]
    /\ run = [s \in Sessions |-> NoRun]
    /\ save = [s \in Sessions |-> Idle]
    /\ files = [f \in FileNames |-> NoFile]
    /\ calls = [f \in FileNames |-> <<>>]

NoInput == [location |-> "", start |-> <<>>, end |-> <<>>, status |-> 200,
            body |-> [data |-> <<>>]]

Init ==
    /\ InitApp
    /\ wIn = NoInput
    /\ wOut = <<>>

\* one step of session s
SessionStep(s, env) ==
    \/ Connect(s)
    \/ SubmitForm(s)
    \/ OpenFile(s)
    \/ FinishSearchSave(s)
    \/ Rerender(s, env)
    \/ MapSearch(s, env)
    \/ SubmitReview(s, env)
    \/ FinishReviewSave(s)

\* the services answer a render in every way the model knows
AnyService == [answers |-> WeatherAnswers, responses |-> ModelResponses]

\* the services are up: the weather service answers 200 with a timeline, the
\* model answers with a text
ServiceUp == [answers   |-> {a \in WeatherAnswers : a.status = 200 /\ Timelines(a.body) # <<>>},
              responses |-> {r \in ModelResponses : r # <<>>}]

Next == \E s \in Sessions : SessionStep(s, ServiceUp)

\* two user sessions on the shared log files, the services up
Spec == Init /\ [][Next]_vars

NextSeq == SessionStep("s1", AnyService)

\* one user session alone, the services answering in any way
SpecSeq == Init /\ [][NextSeq]_vars

InitWeather ==
    /\ InitApp
    /\ wIn \in [location : {"Paris"}, start : DateStrings, end : DateStrings,
                status : Statuses, body : Bodies]
    /\ wOut = <<>>

NextWeather == CallWeather /\ UNCHANGED appVars

\* get_hourly_weather called once on arbitrary arguments and answers
SpecWeather == InitWeather /\ [][NextWeather]_vars

(***************************************************************************)
(* Properties.                                                             *)
(***************************************************************************)
DataRowsOf(rows) == SelectSeq(rows, LAMBDA r : r.kind = "data")

HeaderRowsOf(rows) == SelectSeq(rows, LAMBDA r : r.kind = "header")

RowsBy(rows, s) == SelectSeq(rows, LAMBDA r : r.by = s)

Accepted(form) == form # <<>> /\ form[1].location # "" /\ form[1].preferences # <<>>

\* C1: the page starts in input (the first script run of a fresh session) and
\* is itinerary only after a submission with a non-empty location and non-empty
\* preferences, which appended exactly one row, the submitted one, to the search
\* log and stored every trip field; while the page is input (so also after a
\* rejected submission) the session has appended nothing and stored nothing.
C1_InputToItinerary ==
    \A s \in Sessions :
      /\ page[s] = "unset" => run[s] = NoRun /\ trip[s] = <<>>
      /\ page[s] \in {"unset", "input"} =>
            /\ trip[s] = <<>>
            /\ RowsBy(files[SearchFile].rows, s) = <<>>
            /\ save[s].pc # "idle" => Accepted(submitted[s]) /\ save[s].data = submitted[s]
      /\ page[s] = "itinerary" =>
            /\ Accepted(submitted[s])
            /\ trip[s] = submitted[s]
            /\ DataRowsOf(RowsBy(files[SearchFile].rows, s)) = <<DataRow(submitted[s][1], s)>>
      /\ page[s] \in {"unset", "input", "itinerary"}

C1_Witness ==
    /\ page["s1"] = "itinerary"
    /\ trip["s1"] # <<>>
    /\ trip["s1"][1].preferences = <<"Others", "Surfing">>
    /\ Len(files[SearchFile].rows) >= 2

\* C2: once a session's page is itinerary, every step leaves it itinerary.
C2_ItineraryIsAbsorbing ==
    [][\A s \in Sessions : page[s] = "itinerary" => page'[s] = "itinerary"]_vars

C2_Witness ==
    /\ page["s1"] = "itinerary"
    /\ run["s1"].link # <<>>
    /\ run["s1"].phase = "shown"
    /\ Len(DataRowsOf(files[ReviewFile].rows)) >= 1

\* the calls of save_to_csv on file f that have returned
Completed(f) ==
    IF save["s1"].pc # "idle" /\ save["s1"].file = f
    THEN SubSeq(calls[f], 1, Len(calls[f]) - 1)
    ELSE calls[f]

\* C3: with one session appending, after n >= 1 completed calls of save_to_csv
\* on a file that did not exist, the file holds one header row, first, and then
\* the n records as data rows in call order.
C3_OneHeaderThenRows ==
    \A f \in FileNames :
       LET done == Completed(f)
       IN  IF done = <<>> THEN files[f].rows = <<>>
           ELSE files[f].rows =
                  <<HeaderRow(done[1], "s1")>>
                  \o [i \in 1..Len(done) |-> DataRow(done[i], "s1")]

C3_Witness ==
    /\ save["s1"].pc = "idle"
    /\ Len(calls[ReviewFile]) = 2
    /\ calls[ReviewFile][1] # calls[ReviewFile][2]
    /\ Len(files[ReviewFile].rows) = 3

\* C4: whatever the interleaving of the sessions' appends, each log file holds
\* at most one header row, and all its rows have the same field set.
C4_AtMostOneHeader ==
    \A f \in FileNames :
       /\ Len(HeaderRowsOf(files[f].rows)) <= 1
       /\ \A i, j \in 1..Len(files[f].rows) :
             files[f].rows[i].cols = files[f].rows[j].cols

\* a date string in the strict form YYYY-MM-DD: four digits, two digits, two
\* digits, separated by "-"
StrictYMD(str) ==
    /\ Len(str) = 10
    /\ \A i \in {1, 2, 3, 4, 6, 7, 9, 10} : IsDigit(str[i])
    /\ str[5] = "-" /\ str[8] = "-"

\* C5: a start or end date string that is not in the strict form YYYY-MM-DD
\* gives the format error and the empty sequence, and no HTTP request.
C5_MalformedDateNoRequest ==
    (wOut # <<>> /\ (~StrictYMD(wIn.start) \/ ~StrictYMD(wIn.end))) =>
        /\ wOut[1].error = FormatError
        /\ wOut[1].result = <<>>
        /\ wOut[1].http = 0

DatesParse == Strptime(wIn.start) # <<>> /\ Strptime(wIn.end) # <<>>

\* C6: with dates that parse and any status other than 200, the call issues
\* exactly one HTTP request, reports the fetch error and returns the empty
\* sequence.
C6_NonOkStatus ==
    (wOut # <<>> /\ DatesParse /\ wIn.status # 200) =>
        /\ wOut[1].http = 1
        /\ wOut[1].error = FetchError
        /\ wOut[1].result = <<>>
        /\ wOut[1].raised = ""

C6_Witness ==
    /\ wOut # <<>> /\ DatesParse
    /\ wIn.status = 201
    /\ Timelines(wIn.body) # <<>>
    /\ Intervals(Timelines(wIn.body)[1]) # <<>>
    /\ wOut[1].http = 1

\* the reading the claim describes for one interval: its start time and the
\* three values, "N/A" for what the interval does not carry
ClaimedField(interval, key) ==
    IF interval.values = <<>> THEN "N/A" ELSE GetOrNA(interval.values[1][key])

ClaimedReading(interval) ==
    [time      |-> GetOrNA(interval.startTime),
     temp      |-> ClaimedField(interval, "temperature"),
     humidity  |-> ClaimedField(interval, "humidity"),
     rain_prob |-> ClaimedField(interval, "precipitationProbability")]

\* C7: on status 200 with at least one timeline the call returns one reading
\* per interval of the first timeline, in order, with "N/A" for every field the
\* interval does not carry.
C7_FirstTimelineReadings ==
    (wOut # <<>> /\ DatesParse /\ wIn.status = 200 /\ Timelines(wIn.body) # <<>>) =>
        LET ivs == Intervals(Timelines(wIn.body)[1])
        IN  /\ wOut[1].raised = ""
            /\ wOut[1].result = [i \in 1..Len(ivs) |-> ClaimedReading(ivs[i])]

\* C8: no render of the itinerary page is aborted: every script run that has
\* ended displayed the page.
C8_RenderNeverAborts ==
    \A s \in Sessions : run[s].phase # "aborted"

\* C9: every render in state itinerary has called the weather fetcher once and
\* the itinerary generator once.
C9_BothCallsEveryRender ==
    \A s \in Sessions :
       (page[s] = "itinerary" /\ run[s].phase \in {"shown", "saving", "aborted"}) =>
           run[s].weatherCalls = 1 /\ run[s].genCalls = 1

====
